---- MODULE Spec2Model ----
(***************************************************************************)
(* Model of src/main.rs: the column-group detector (parse_set_columns),    *)
(* the card extractor (parse_cards) and the streaming set accumulator      *)
(* (parse_csv_file) that reads a CSV sheet record by record.               *)
(*                                                                         *)
(* Columns are 0-based as in the source; a record is a TLA+ sequence, so   *)
(* the cell at column idx of record r is r[idx + 1].                       *)
(* A Uuid is random in the source (Uuid::new_v4); only its freshness       *)
(* matters, so set identifiers are drawn from the counter nextUuid and a   *)
(* card identifier is the pair (record number, set identifier).            *)
(***************************************************************************)
EXTENDS Integers, Sequences, FiniteSets, TLC

VARIABLES
    pc,               \* position of the running function
    lines,            \* lines the csv reader has consumed so far (header first)
    record,           \* the record being processed (loop variable `record`)
    parsing,          \* HashMap<Uuid, Set>        : sets under construction
    mapping,          \* HashMap<Uuid, SetColumns> : their column triples
    sets,             \* Vec<Set>                  : finalized sets
    new_set_columns,  \* Vec<SetColumns> detected in the current record
    finished,         \* Vec<Uuid> of open sets matched by a detected group
    nextUuid,         \* source of fresh set identifiers
    ret,              \* value returned by parse_csv_file
    index,            \* parse_set_columns: column the scan is at
    scan,             \* parse_set_columns: the three cursors and `result`
    closeEvents,      \* history: number of sets closed by a row so far
    closedBy,         \* history: for each element of sets, what closed it
    openedAt,         \* history: for each set, the record and group that opened it
    printed           \* upload_csv: what the handler has printed for the sets

vars == <<pc, lines, record, parsing, mapping, sets, new_set_columns, finished,
          nextUuid, ret, index, scan, closeEvents, closedBy, openedAt, printed>>

----------------------------------------------------------------------------
(* Bounds *)

\* longest record given to the detector on its own
MaxWidth == 6
\* most lines (header line included) the reader delivers before end of input
MaxLines == 4
\* longest record given to parse_cards on its own
CardWidth == 2
\* largest column position of the set given to parse_cards on its own
MaxCol == 3

----------------------------------------------------------------------------
(* Values *)

\* Option::None of an Option<usize> cursor
None == 0 - 1

is_some(x) == x # None

EmptyMap == [k \in {} |-> k]

MapInsert(m, k, v) == [x \in (DOMAIN m) \cup {k} |-> IF x = k THEN v ELSE m[x]]

MapRemove(m, k) == [x \in (DOMAIN m) \ {k} |-> m[x]]

\* str::len of a cell (the cells of the model are ASCII)
FieldLen(field) == Len(field)

\* smallest length that no longer qualifies as a title is 3: `field.len() > 3`
TextMinLen == 3

\* parse_csv_file has not returned yet
NotReturned == [kind |-> "Running"]

NewSetColumns(suite, text, special) ==
    [suite |-> suite, text |-> text, special |-> special, editions |-> EmptyMap]

Triple(col) == <<col.suite, col.text, col.special>>

----------------------------------------------------------------------------
(* parse_set_columns: the column-group detector *)

ScanInit == [suite_index |-> None, text_index |-> None, special_index |-> None,
             result |-> <<>>]

\* mutant: a title needs more than 5 bytes
MatchFieldLong(st, idx, field) ==
    IF field = "Set" THEN [st EXCEPT !.suite_index = idx]
    ELSE IF field = "Special" THEN [st EXCEPT !.special_index = idx]
    ELSE IF /\ FieldLen(field) > 5
            /\ is_some(st.suite_index)
            /\ idx > st.suite_index
            /\ ~is_some(st.special_index)
         THEN [st EXCEPT !.text_index = idx]
    ELSE st

\* mutant: a title is accepted after "Special" has been seen
MatchFieldAfterSpecial(st, idx, field) ==
    IF field = "Set" THEN [st EXCEPT !.suite_index = idx]
    ELSE IF field = "Special" THEN [st EXCEPT !.special_index = idx]
    ELSE IF /\ FieldLen(field) > TextMinLen
            /\ is_some(st.suite_index)
            /\ idx > st.suite_index
         THEN [st EXCEPT !.text_index = idx]
    ELSE st

\* mutant: "Set" restarts the attempt and clears the other two cursors
MatchFieldRestart(st, idx, field) ==
    IF field = "Set"
    THEN [st EXCEPT !.suite_index = idx, !.text_index = None, !.special_index = None]
    ELSE IF field = "Special" THEN [st EXCEPT !.special_index = idx]
    ELSE IF /\ FieldLen(field) > TextMinLen
            /\ is_some(st.suite_index)
            /\ idx > st.suite_index
            /\ ~is_some(st.special_index)
         THEN [st EXCEPT !.text_index = idx]
    ELSE st

\* the `match field` of the scan loop
MatchField(st, idx, field) ==
    IF field = "Set" THEN [st EXCEPT !.suite_index = idx]
    ELSE IF field = "Special" THEN [st EXCEPT !.special_index = idx]
    ELSE IF /\ FieldLen(field) > TextMinLen
            /\ is_some(st.suite_index)
            /\ idx > st.suite_index
            /\ ~is_some(st.special_index)
         THEN [st EXCEPT !.text_index = idx]
    ELSE st

\* mutant: the cursors are not reset after a group is pushed
EmitGroupNoReset(st) ==
    IF is_some(st.suite_index) /\ is_some(st.text_index) /\ is_some(st.special_index)
    THEN [st EXCEPT !.result = Append(st.result,
                NewSetColumns(st.suite_index, st.text_index, st.special_index))]
    ELSE st

\* the `if` closing the body of the scan loop: push a complete group, reset
EmitGroup(st) ==
    IF is_some(st.suite_index) /\ is_some(st.text_index) /\ is_some(st.special_index)
    THEN [suite_index |-> None, text_index |-> None, special_index |-> None,
          result |-> Append(st.result,
                NewSetColumns(st.suite_index, st.text_index, st.special_index))]
    ELSE st

\* one iteration of the scan loop
ScanCell(st, idx, field) == EmitGroup(MatchField(st, idx, field))

RECURSIVE ScanFrom(_, _, _)
ScanFrom(st, idx, rec) ==
    IF idx >= Len(rec) THEN st
    ELSE ScanFrom(ScanCell(st, idx, rec[idx + 1]), idx + 1, rec)

parse_set_columns(rec) == ScanFrom(ScanInit, 0, rec).result

----------------------------------------------------------------------------
(* The detector on its own: every record up to MaxWidth cells over ScanCells, *)
(* scanned one cell per step.                                                 *)

ScanCells == {"Set", "Special", "Title", "Other text", ""}

ScanRows == UNION {[1..w -> ScanCells] : w \in 0..MaxWidth}

Idle == /\ lines = <<>>
        /\ parsing = EmptyMap
        /\ mapping = EmptyMap
        /\ sets = <<>>
        /\ finished = <<>>
        /\ nextUuid = 1
        /\ ret = NotReturned
        /\ closeEvents = 0
        /\ closedBy = <<>>
        /\ openedAt = <<>>
        /\ printed = <<>>

InitD == /\ pc = "scan"
         /\ record \in ScanRows
         /\ index = 0
         /\ scan = ScanInit
         /\ new_set_columns = <<>>
         /\ Idle

ScanStep == /\ pc = "scan"
            /\ index < Len(record)
            /\ scan' = ScanCell(scan, index, record[index + 1])
            /\ index' = index + 1
            /\ UNCHANGED <<pc, lines, record, parsing, mapping, sets,
                           new_set_columns, finished, nextUuid, ret,
                           closeEvents, closedBy,
                   openedAt, printed>>

ScanReturn == /\ pc = "scan"
              /\ index = Len(record)
              /\ new_set_columns' = scan.result
              /\ pc' = "scanned"
              /\ UNCHANGED <<lines, record, parsing, mapping, sets, finished,
                             nextUuid, ret, index, scan, closeEvents, closedBy,
                   openedAt, printed>>

NextD == ScanStep \/ ScanReturn

SpecD == InitD /\ [][NextD]_vars

----------------------------------------------------------------------------
(* Suite, Card, Set, parse_field, parse_cards *)

NoSuite == "None"

\* mutant: "Response" is read as a prompt
Suite_from_str_AllPrompt(value) ==
    IF value = "Prompt" THEN "PROMPT"
    ELSE IF value = "Response" THEN "PROMPT"
    ELSE NoSuite

Suite_from_str(value) ==
    IF value = "Prompt" THEN "PROMPT"
    ELSE IF value = "Response" THEN "RESPONSE"
    ELSE NoSuite

Card_new(uuid, suite, text, special) ==
    [uuid |-> uuid, suite |-> suite, text |-> text, special |-> special,
     editions |-> {}]

Set_new(uuid, name) ==
    [uuid |-> uuid, name |-> name, cards |-> <<>>, editions |-> <<>>]

\* mutant: a column past the end reads the last cell of the record
parse_fieldLast(rec, idx) ==
    IF idx < Len(rec) THEN rec[idx + 1]
    ELSE IF Len(rec) > 0 THEN rec[Len(rec)] ELSE ""

parse_field(rec, idx) == IF idx < Len(rec) THEN rec[idx + 1] ELSE ""

\* the card parse_cards builds for one (set_id, col) of the mapping;
\* card.editions is a Vec filled in HashMap order, modelled as a set
CardFor(rec, recNo, set_id, col) ==
    [Card_new(<<recNo, set_id>>,
              Suite_from_str(parse_field(rec, col.suite)),
              parse_field(rec, col.text),
              parse_field(rec, col.special))
        EXCEPT !.editions = {e \in DOMAIN col.editions : col.editions[e] < Len(rec)}]

\* HashMap<Uuid, Vec<Card>>: an entry only for the sets that got a card
parse_cards(rec, recNo, map) ==
    [set_id \in {i \in DOMAIN map :
                    Suite_from_str(parse_field(rec, map[i].suite)) # NoSuite}
        |-> <<CardFor(rec, recNo, set_id, map[set_id])>>]

\* mutant: the cards of the record replace the cards of the set
ExtendCardsReplace(pars, cards) ==
    [id \in DOMAIN pars |->
        IF id \in DOMAIN cards
        THEN [pars[id] EXCEPT !.cards = cards[id]]
        ELSE pars[id]]

\* `for (set_id, cards) in cards { if let Some(set) = parsing.get_mut(..) .. }`
ExtendCards(pars, cards) ==
    [id \in DOMAIN pars |->
        IF id \in DOMAIN cards
        THEN [pars[id] EXCEPT !.cards = @ \o cards[id]]
        ELSE pars[id]]

----------------------------------------------------------------------------
(* parse_csv_file: reconciliation helpers *)

\* open sets whose column triple equals that of a detected group
Matches(map, set_column) ==
    {id \in DOMAIN map : /\ map[id].suite = set_column.suite
                         /\ map[id].text = set_column.text
                         /\ map[id].special = set_column.special}

\* the values `finished` can take: for each detected group, in order, the
\* first match `find` meets in the HashMap's (unspecified) iteration order
RECURSIVE FinishedChoices(_, _)
FinishedChoices(map, cols) ==
    IF cols = <<>> THEN {<<>>}
    ELSE LET ms   == Matches(map, Head(cols))
             rest == FinishedChoices(map, Tail(cols))
         IN IF ms = {} THEN rest
            ELSE {<<id>> \o r : id \in ms, r \in rest}

\* mutant: a finished set is pushed but stays in both maps
CloseOneKeep(st, id) ==
    [st EXCEPT !.sets = IF id \in DOMAIN st.parsing
                        THEN Append(st.sets, st.parsing[id]) ELSE st.sets]

\* mutant: a finished set is removed without being pushed
CloseOneDrop(st, id) ==
    [parsing |-> MapRemove(st.parsing, id),
     mapping |-> MapRemove(st.mapping, id),
     sets    |-> st.sets]

\* mutant: a finished set is put in front of the output
CloseOneFront(st, id) ==
    [parsing |-> MapRemove(st.parsing, id),
     mapping |-> MapRemove(st.mapping, id),
     sets    |-> IF id \in DOMAIN st.parsing
                 THEN <<st.parsing[id]>> \o st.sets ELSE st.sets]

\* mutant: a finished set is pushed and unmapped but stays in `parsing`
CloseOneMappingOnly(st, id) ==
    [parsing |-> st.parsing,
     mapping |-> MapRemove(st.mapping, id),
     sets    |-> IF id \in DOMAIN st.parsing
                 THEN Append(st.sets, st.parsing[id]) ELSE st.sets]

\* body of `for id in finished`
CloseOne(st, id) ==
    [parsing |-> MapRemove(st.parsing, id),
     mapping |-> MapRemove(st.mapping, id),
     sets    |-> IF id \in DOMAIN st.parsing
                 THEN Append(st.sets, st.parsing[id]) ELSE st.sets]

RECURSIVE CloseLoop(_, _)
CloseLoop(st, fin) ==
    IF fin = <<>> THEN st
    ELSE CloseLoop(CloseOne(st, Head(fin)), Tail(fin))

\* mutant: the new set reuses the identifier of the set just closed
OpenOneReuse(st, rec, set_column) ==
    LET old == {s.uuid : s \in {st.sets[i] : i \in 1..Len(st.sets)}}
        id  == IF old = {} THEN st.nextUuid
               ELSE CHOOSE u \in old : \A v \in old : v <= u
    IN [parsing  |-> MapInsert(st.parsing, id, Set_new(id, rec[set_column.text + 1])),
        mapping  |-> MapInsert(st.mapping, id, set_column),
        sets     |-> st.sets,
        nextUuid |-> st.nextUuid + 1]

\* mutant: the new set is named after the cell at the suite column
OpenOneSuiteName(st, rec, set_column) ==
    LET id == st.nextUuid
    IN [parsing  |-> MapInsert(st.parsing, id, Set_new(id, rec[set_column.suite + 1])),
        mapping  |-> MapInsert(st.mapping, id, set_column),
        sets     |-> st.sets,
        nextUuid |-> st.nextUuid + 1]

\* body of `for set_column in new_set_columns`
OpenOne(st, rec, set_column) ==
    LET id == st.nextUuid
    IN [parsing  |-> MapInsert(st.parsing, id, Set_new(id, rec[set_column.text + 1])),
        mapping  |-> MapInsert(st.mapping, id, set_column),
        sets     |-> st.sets,
        nextUuid |-> st.nextUuid + 1]

RECURSIVE OpenLoop(_, _, _)
OpenLoop(st, rec, cols) ==
    IF cols = <<>> THEN st
    ELSE OpenLoop(OpenOne(st, rec, Head(cols)), rec, Tail(cols))

\* the orders in which a HashMap may iterate over the keys S
RECURSIVE Orders(_)
Orders(S) ==
    IF S = {} THEN {<<>>}
    ELSE UNION {{<<k>> \o o : o \in Orders(S \ {k})} : k \in S}

ValuesIn(pars, order) == [i \in 1..Len(order) |-> pars[order[i]]]

\* mutant: the sets still open are not added at the end
FlushedNothing(out, pars, order) == out

\* `sets.extend(parsing.values().cloned())`
Flushed(out, pars, order) == out \o ValuesIn(pars, order)

----------------------------------------------------------------------------
(* parse_csv_file: the lines of the sheet.  A sheet lays its tables side by  *)
(* side, three columns each; a line is one or two such blocks.  In a sheet   *)
(* one block wide the tables "Title" and "Title2" follow each other; in a    *)
(* sheet two blocks wide the tables on the left are titled "Title" and the   *)
(* tables on the right "Title2".                                             *)

HeaderBlock  == <<"Set", "Title", "Special">>
HeaderBlock2 == <<"Set", "Title2", "Special">>
PromptBlock  == <<"Prompt", "What is red?", "">>
ResponseBlock == <<"Response", "Blue", "Pick 2">>
BlankBlock   == <<"", "", "">>

Blocks == {HeaderBlock, HeaderBlock2, PromptBlock, ResponseBlock, BlankBlock}

LeftBlocks == Blocks \ {HeaderBlock2}

RightBlocks == Blocks \ {HeaderBlock}

FileRows == Blocks \cup {a \o b : a \in LeftBlocks, b \in RightBlocks}

\* the first line of the sheet
FirstLines == {HeaderBlock, HeaderBlock \o HeaderBlock2}

\* csv::Reader, not flexible: the field count of the first line read
first_field_count == Len(lines[1])

Init == /\ pc = "start"
        /\ record = <<>>
        /\ new_set_columns = <<>>
        /\ index = 0
        /\ scan = ScanInit
        /\ Idle

\* csv::Reader::from_reader has_headers(true): the first line of the file is
\* taken as the header record and is not yielded by rdr.records()
ReadHeader(line) ==
    /\ pc = "start"
    /\ lines' = <<line>>
    /\ pc' = "read"
    /\ UNCHANGED <<record, parsing, mapping, sets, new_set_columns, finished,
                   nextUuid, ret, index, scan, closeEvents, closedBy,
                   openedAt, printed>>

\* mutant: a malformed record ends the loop and the sets so far are returned
ReadErrorPartial(line) ==
    /\ pc = "read"
    /\ Len(lines) < MaxLines
    /\ Len(line) # first_field_count
    /\ lines' = Append(lines, line)
    /\ ret' = [kind |-> "Ok", sets |-> sets]
    /\ pc' = "error"
    /\ UNCHANGED <<record, parsing, mapping, sets, new_set_columns, finished,
                   nextUuid, index, scan, closeEvents, closedBy,
                   openedAt, printed>>

\* `let record = result?;` when the reader yields Err: a record whose field
\* count differs from the first line's (csv::ErrorKind::UnequalLengths)
ReadError(line) ==
    /\ pc = "read"
    /\ Len(lines) < MaxLines
    /\ Len(line) # first_field_count
    /\ lines' = Append(lines, line)
    /\ ret' = [kind |-> "Err", error |-> "UnequalLengths"]
    /\ pc' = "error"
    /\ UNCHANGED <<record, parsing, mapping, sets, new_set_columns, finished,
                   nextUuid, index, scan, closeEvents, closedBy,
                   openedAt, printed>>

\* one record read; parse_cards and the extend loop, parse_set_columns, and
\* the computation of `finished`
ReadRecord(line) ==
    /\ pc = "read"
    /\ Len(lines) < MaxLines
    /\ Len(line) = first_field_count
    /\ lines' = Append(lines, line)
    /\ record' = line
    /\ parsing' = ExtendCards(parsing, parse_cards(line, Len(lines), mapping))
    /\ new_set_columns' = parse_set_columns(line)
    /\ finished' \in FinishedChoices(mapping, new_set_columns')
    /\ pc' = "close"
    /\ UNCHANGED <<mapping, sets, nextUuid, ret, index, scan, closeEvents,
                   closedBy,
                   openedAt, printed>>

\* history: the groups of the current record that match an open set
Triggers == {j \in 1..Len(new_set_columns) : Matches(mapping, new_set_columns[j]) # {}}

\* `for id in finished { .. }`
CloseFinished ==
    /\ pc = "close"
    /\ LET st == CloseLoop([parsing |-> parsing, mapping |-> mapping, sets |-> sets],
                           finished)
       IN /\ parsing' = st.parsing
          /\ mapping' = st.mapping
          /\ sets' = st.sets
    /\ closeEvents' = closeEvents + Cardinality(Triggers)
    /\ closedBy' =
         LET hit == UNION {Matches(mapping, new_set_columns[j]) : j \in Triggers}
         IN [u \in (DOMAIN closedBy) \cup hit |->
               IF u \in hit
               THEN <<Len(lines) - 1,
                      CHOOSE j \in Triggers : u \in Matches(mapping, new_set_columns[j])>>
               ELSE closedBy[u]]
    /\ pc' = "open"
    /\ UNCHANGED <<lines, record, new_set_columns, finished, nextUuid, ret,
                   index, scan, openedAt, printed>>

\* `for set_column in new_set_columns { .. }`
OpenNew ==
    /\ pc = "open"
    /\ LET st == OpenLoop([parsing |-> parsing, mapping |-> mapping, sets |-> sets,
                           nextUuid |-> nextUuid], record, new_set_columns)
       IN /\ parsing' = st.parsing
          /\ mapping' = st.mapping
          /\ nextUuid' = st.nextUuid
    /\ openedAt' =
         [u \in (DOMAIN openedAt) \cup ((DOMAIN mapping') \ (DOMAIN mapping)) |->
            IF u \in DOMAIN openedAt THEN openedAt[u]
            ELSE [rec |-> Len(lines) - 1, col |-> mapping'[u]]]
    /\ pc' = "read"
    /\ UNCHANGED <<lines, record, sets, new_set_columns, finished, ret, index,
                   scan, closeEvents, closedBy, printed>>

\* end of input: `sets.extend(parsing.values().cloned()); Ok(sets)`
Finish ==
    /\ pc \in {"start", "read"}
    /\ \E order \in Orders(DOMAIN parsing) :
          /\ sets' = Flushed(sets, parsing, order)
          /\ ret' = [kind |-> "Ok", sets |-> sets']
    /\ pc' = "done"
    /\ UNCHANGED <<lines, record, parsing, mapping, new_set_columns, finished,
                   nextUuid, index, scan, closeEvents, closedBy,
                   openedAt, printed>>

\* upload_csv: number of cards of each set the handler prints
PreviewLen == 10

\* upload_csv, `for set in sets { .. }`: the name is printed, then the slice
\* `&set.cards[0..10]` is taken, which panics when the set has fewer cards
RECURSIVE ReportLoop(_, _)
ReportLoop(out, todo) ==
    IF todo = <<>> THEN [printed |-> out, panicked |-> FALSE]
    ELSE LET set   == Head(todo)
             named == Append(out, <<"name", set.name>>)
         IN IF Len(set.cards) < PreviewLen
            THEN [printed |-> named, panicked |-> TRUE]
            ELSE ReportLoop(named \o [i \in 1..PreviewLen |->
                                         <<"card", set.cards[i].text>>],
                            Tail(todo))

\* upload_csv after parse_csv_file returned Ok(sets)
UploadReport ==
    /\ pc = "done"
    /\ LET r == ReportLoop(<< <<"found", Len(ret.sets)>> >>, ret.sets)
       IN /\ printed' = r.printed
          /\ pc' = IF r.panicked THEN "panicked" ELSE "reported"
    /\ UNCHANGED <<lines, record, parsing, mapping, sets, new_set_columns,
                   finished, nextUuid, ret, index, scan, closeEvents, closedBy,
                   openedAt>>

Next == \/ \E line \in FirstLines : ReadHeader(line)
        \/ \E line \in FileRows : ReadError(line)
        \/ \E line \in FileRows : ReadRecord(line)
        \/ CloseFinished
        \/ OpenNew
        \/ Finish
        \/ UploadReport

Spec == Init /\ [][Next]_vars

----------------------------------------------------------------------------
(* parse_cards on its own: one open set with any column positions up to     *)
(* MaxCol, and any record of up to CardWidth cells over CardCells, so that  *)
(* the columns of the set may lie past the end of the record.               *)

CardCells == {"Prompt", "Response", "Title", ""}

CardRows == UNION {[1..w -> CardCells] : w \in 0..CardWidth}

CardColumns == {NewSetColumns(a, b, c) : a \in 0..MaxCol, b \in 0..MaxCol,
                                         c \in 0..MaxCol}

InitC == /\ pc = "extract"
         /\ record \in CardRows
         /\ \E col \in CardColumns : mapping = [u \in {1} |-> col]
         /\ parsing = [u \in {1} |-> Set_new(1, "Title")]
         /\ nextUuid = 2
         /\ lines = <<>>
         /\ sets = <<>>
         /\ new_set_columns = <<>>
         /\ finished = <<>>
         /\ ret = NotReturned
         /\ index = 0
         /\ scan = ScanInit
         /\ closeEvents = 0
         /\ closedBy = <<>>
         /\ openedAt = <<>>
         /\ printed = <<>>

\* `let cards = parse_cards(&record, mapping.clone());` and the extend loop
ExtractCards ==
    /\ pc = "extract"
    /\ parsing' = ExtendCards(parsing, parse_cards(record, 1, mapping))
    /\ pc' = "extracted"
    /\ UNCHANGED <<lines, record, mapping, sets, new_set_columns, finished,
                   nextUuid, ret, index, scan, closeEvents, closedBy,
                   openedAt, printed>>

NextC == ExtractCards

SpecC == InitC /\ [][NextC]_vars

----------------------------------------------------------------------------
(* Vocabulary of the properties *)

\* number of the record being processed (the header line is line 1)
RecNo == Len(lines) - 1

Uuids(seq) == {seq[k].uuid : k \in 1..Len(seq)}

IsMarker(field) == field \in {"Set", "Special"}

\* a cell that can serve as a title: longer than 3 characters, not a marker
IsTitle(field) == Len(field) > 3 /\ ~IsMarker(field)

Group(a, b, c) == NewSetColumns(a, b, c)

\* lexicographic order on (record number, emission position)
Before(p, q) == p[1] < q[1] \/ (p[1] = q[1] /\ p[2] < q[2])

----------------------------------------------------------------------------
(* Properties of the accumulator (specification Spec) *)

\* C1: in every reachable state, also between the close step and the open
\* step of a row, no two open sets have the same (suite, text, special) triple.
C1_UniqueTriple ==
    \A a \in DOMAIN mapping : \A b \in DOMAIN mapping :
        a # b => Triple(mapping[a]) # Triple(mapping[b])

\* between the close step and the open step of a record: triples have recurred
\* (two close events), a set is still open and a detected group is about to
\* be opened
C1_Witness ==
    /\ pc = "open"
    /\ closeEvents >= 2
    /\ Cardinality(DOMAIN mapping) >= 1
    /\ Len(new_set_columns) >= 1

\* C2: a detected group whose triple equals that of an open set closes exactly
\* that set (pushed to the output with its cards, removed from the open
\* collection, nothing else closed for this group), and a new set with a fresh
\* identifier and no cards is opened at the same triple.
C2_MatchClosesAndReopens ==
    [][ /\ (pc = "close") =>
            LET hit == UNION {Matches(mapping, new_set_columns[j]) : j \in Triggers}
            IN /\ \A j \in Triggers : Cardinality(Matches(mapping, new_set_columns[j])) = 1
               /\ DOMAIN mapping' = (DOMAIN mapping) \ hit
               /\ DOMAIN parsing' = (DOMAIN parsing) \ hit
               /\ Len(sets') = Len(sets) + Cardinality(Triggers)
               /\ SubSeq(sets', 1, Len(sets)) = sets
               /\ \A id \in hit :
                     Cardinality({k \in (Len(sets) + 1)..Len(sets') :
                                     sets'[k] = parsing[id]}) = 1
        /\ pc = "open" =>
            \A u \in DOMAIN closedBy :
                closedBy[u][1] = RecNo =>
                  LET g   == new_set_columns[closedBy[u][2]]
                      new == {id \in (DOMAIN mapping') \ (DOMAIN mapping) :
                                 Triple(mapping'[id]) = Triple(g)}
                  IN /\ Cardinality(new) = 1
                     /\ \A id \in new :
                           /\ id # u
                           /\ id \notin Uuids(sets)
                           /\ id \in DOMAIN parsing'
                           /\ parsing'[id].uuid = id
                           /\ parsing'[id].cards = <<>>
      ]_vars

\* a set holding a card was closed by the current record and a new set with no
\* cards is open at its triple
C2_Witness ==
    /\ pc = "read"
    /\ \E k \in 1..Len(sets) :
          /\ sets[k].cards # <<>>
          /\ closedBy[sets[k].uuid][1] = RecNo
          /\ \E id \in DOMAIN mapping :
                /\ id # sets[k].uuid
                /\ Triple(mapping[id]) = Triple(new_set_columns[closedBy[sets[k].uuid][2]])
                /\ parsing[id].cards = <<>>

Scenario3 == << <<"Set", "Title", "Special">>,
                <<"Prompt", "What is red?", "">>,
                <<"Set", "Title2", "Special">> >>

\* C3: the file whose three lines are ["Set","Title","Special"],
\* ["Prompt","What is red?",""], ["Set","Title2","Special"] yields exactly two
\* sets: "Title" with one PROMPT card "What is red?", then "Title2" with none.
C3_Scenario ==
    (pc = "done" /\ lines = Scenario3) =>
        /\ ret.kind = "Ok"
        /\ Len(ret.sets) = 2
        /\ ret.sets[1].name = "Title"
        /\ Len(ret.sets[1].cards) = 1
        /\ ret.sets[1].cards[1].suite = "PROMPT"
        /\ ret.sets[1].cards[1].text = "What is red?"
        /\ ret.sets[2].name = "Title2"
        /\ ret.sets[2].cards = <<>>

\* C4: for every record and every set open when it is processed, "Prompt" at
\* the set's suite column appends exactly one PROMPT card with the text and
\* special cells of the record, "Response" one RESPONSE card likewise, and any
\* other value appends nothing.
C4_OneCardPerSuiteCell ==
    [][ (pc = "read" /\ pc' = "close") =>
          \A id \in DOMAIN mapping :
             LET col  == mapping[id]
                 cell == record'[col.suite + 1]
                 old  == parsing[id].cards
                 new  == parsing'[id].cards
                 want == IF cell = "Prompt" THEN "PROMPT" ELSE "RESPONSE"
             IN IF cell \in {"Prompt", "Response"}
                THEN /\ Len(new) = Len(old) + 1
                     /\ SubSeq(new, 1, Len(old)) = old
                     /\ new[Len(new)].suite = want
                     /\ new[Len(new)].text = record'[col.text + 1]
                     /\ new[Len(new)].special = record'[col.special + 1]
                ELSE new = old
      ]_vars

\* one record gave a PROMPT card to one open set and a RESPONSE card to another
C4_Witness ==
    /\ pc = "close"
    /\ \E a \in DOMAIN parsing : \E b \in DOMAIN parsing :
          /\ parsing[a].cards # <<>>
          /\ parsing[b].cards # <<>>
          /\ LET ca == parsing[a].cards[Len(parsing[a].cards)]
                 cb == parsing[b].cards[Len(parsing[b].cards)]
             IN /\ ca.uuid[1] = RecNo /\ ca.suite = "PROMPT"
                /\ cb.uuid[1] = RecNo /\ cb.suite = "RESPONSE"
                /\ cb.special = "Pick 2"

\* C5: at the end of the input every set still open is finalized, and the
\* number of returned sets is the number of close events plus the number of
\* sets open at the end.
C5_FlushCount ==
    pc = "done" =>
        /\ ret.kind = "Ok"
        /\ Len(ret.sets) = closeEvents + Cardinality(DOMAIN mapping)
        /\ \A id \in DOMAIN mapping :
              /\ id \in DOMAIN parsing
              /\ Cardinality({k \in 1..Len(ret.sets) : ret.sets[k] = parsing[id]}) = 1

\* the input ended with two sets open after at least one close event
C5_Witness ==
    /\ pc = "done"
    /\ closeEvents >= 1
    /\ Cardinality(DOMAIN mapping) = 2

\* C9: the output is in finalization order: sets closed by an earlier record
\* come first, sets closed by one record come in the emission order of the
\* groups that closed them, and every closed set precedes the sets that were
\* open at the end of the input.
C9_FinalizationOrder ==
    \A i \in 1..Len(sets) : \A j \in 1..Len(sets) :
        i < j =>
          LET ui == sets[i].uuid
              uj == sets[j].uuid
          IN /\ (ui \in DOMAIN closedBy /\ uj \in DOMAIN closedBy)
                    => Before(closedBy[ui], closedBy[uj])
             /\ ui \notin DOMAIN closedBy => uj \notin DOMAIN closedBy

\* the output holds two sets closed by the same record, a set closed by a
\* later record, and a set that was open at the end
C9_Witness ==
    /\ pc = "done"
    /\ \E i \in 1..Len(sets) : \E j \in 1..Len(sets) : \E k \in 1..Len(sets) :
          /\ sets[i].uuid \in DOMAIN closedBy
          /\ sets[j].uuid \in DOMAIN closedBy
          /\ sets[k].uuid \in DOMAIN closedBy
          /\ closedBy[sets[i].uuid][1] = closedBy[sets[j].uuid][1]
          /\ closedBy[sets[i].uuid][2] < closedBy[sets[j].uuid][2]
          /\ closedBy[sets[j].uuid][1] < closedBy[sets[k].uuid][1]
    /\ \E m \in 1..Len(sets) : sets[m].uuid \notin DOMAIN closedBy

\* C10: when the reader reports a malformed record the parser stops there and
\* returns only the error; neither the sets finalized so far nor the sets
\* still open are returned.
C10_ErrorOnly ==
    pc = "error" =>
        /\ ret = [kind |-> "Err", error |-> "UnequalLengths"]
        /\ ~ENABLED Next

\* the failing record came when a set had been finalized and another was open
C10_Witness ==
    /\ pc = "error"
    /\ sets # <<>>
    /\ DOMAIN parsing # {}

----------------------------------------------------------------------------
(* Properties of the detector (specification SpecD) *)

\* C6: text_pos is latched: the text column of an emitted group is the first
\* qualifying cell after the group's suite column.
C6_TextLatched ==
    pc = "scanned" =>
        \A k \in 1..Len(new_set_columns) :
            LET g == new_set_columns[k]
            IN ~ \E j \in 0..(Len(record) - 1) :
                    /\ g.suite < j
                    /\ j < g.text
                    /\ IsTitle(record[j + 1])

\* every cell outside the columns cs is no marker, and none strictly between
\* lo and hi is a title
Undisturbed(rec, cs, lo, hi) ==
    \A k \in (0..(Len(rec) - 1)) \ cs :
        /\ ~IsMarker(rec[k + 1])
        /\ ((lo < k /\ k < hi) => ~IsTitle(rec[k + 1]))

\* C7: a record with two independent groups, "Set", a title, "Special" at
\* columns a<b<c and again at d<e<f with c<d, yields {a,b,c} then {d,e,f};
\* and for every record the groups come in strictly increasing special_col
\* order, every column of a later group lying after the special_col of every
\* earlier one, so no two groups of a record share a triple.
C7_TwoGroupsInOrder ==
    pc = "scanned" =>
        LET n == Len(record)
        IN /\ \A a \in 0..(n - 1) : \A b \in (a + 1)..(n - 1) :
              \A c \in (b + 1)..(n - 1) : \A d \in (c + 1)..(n - 1) :
              \A e \in (d + 1)..(n - 1) : \A f \in (e + 1)..(n - 1) :
                ( /\ record[a + 1] = "Set"
                  /\ IsTitle(record[b + 1])
                  /\ record[c + 1] = "Special"
                  /\ record[d + 1] = "Set"
                  /\ IsTitle(record[e + 1])
                  /\ record[f + 1] = "Special"
                  /\ Undisturbed(record, {a, b, c, d, e, f}, a, c)
                  /\ Undisturbed(record, {a, b, c, d, e, f}, d, f) )
                => new_set_columns = <<Group(a, b, c), Group(d, e, f)>>
           /\ \A i \in 1..Len(new_set_columns) : \A j \in 1..Len(new_set_columns) :
                i < j =>
                  /\ new_set_columns[i].special < new_set_columns[j].special
                  /\ new_set_columns[i].special < new_set_columns[j].suite
                  /\ new_set_columns[i].special < new_set_columns[j].text
                  /\ Triple(new_set_columns[i]) # Triple(new_set_columns[j])

\* the scan of a record with two groups side by side has returned both
C7_Witness ==
    /\ pc = "scanned"
    /\ record = <<"Set", "Title", "Special", "Set", "Other text", "Special">>
    /\ new_set_columns = <<Group(0, 1, 2), Group(3, 4, 5)>>

\* C8: a record with neither "Set" nor "Special" yields no group; a record
\* with "Set" at column i, a cell longer than 3 characters at i+1, "Special"
\* at i+2 and no other marker yields exactly the group {i, i+1, i+2}.
C8_NoMarkerNoGroup ==
    pc = "scanned" =>
        LET n == Len(record)
        IN /\ (\A k \in 1..n : ~IsMarker(record[k])) => new_set_columns = <<>>
           /\ \A i \in 0..(n - 3) :
                ( /\ record[i + 1] = "Set"
                  /\ IsTitle(record[i + 2])
                  /\ record[i + 3] = "Special"
                  /\ \A k \in (0..(n - 1)) \ {i, i + 2} : ~IsMarker(record[k + 1]) )
                => new_set_columns = <<Group(i, i + 1, i + 2)>>

\* "Set" at column 2, a title at 3, "Special" at 4: one group {2,3,4}
C8_Witness ==
    /\ pc = "scanned"
    /\ Len(record) >= 5
    /\ record[3] = "Set"
    /\ record[5] = "Special"
    /\ \A k \in 1..Len(record) : ~IsMarker(record[k]) \/ k \in {3, 5}
    /\ new_set_columns = <<Group(2, 3, 4)>>

\* a record without markers but with titles was scanned
C8_WitnessNone ==
    /\ pc = "scanned"
    /\ Len(record) >= 3
    /\ \A k \in 1..Len(record) : ~IsMarker(record[k])
    /\ \E k \in 1..Len(record) : IsTitle(record[k])

----------------------------------------------------------------------------
(* Further properties of the accumulator (specification Spec) *)

\* the cell of the opening record at column c of the group that opened set u
OpeningCell(u, c) == lines[openedAt[u].rec + 1][c + 1]

\* C11: every group detected in a record opens a new set at the end of that
\* record's processing, matched or not; the set's name is the record's cell at
\* the group's text column and never changes, so a finalized set carries the
\* name from its opening record.
C11_EveryGroupOpensNamedSet ==
    [][ /\ (pc = "open") =>
            /\ Cardinality((DOMAIN mapping') \ (DOMAIN mapping)) = Len(new_set_columns)
            /\ \A j \in 1..Len(new_set_columns) :
                 LET new == {id \in (DOMAIN mapping') \ (DOMAIN mapping) :
                                mapping'[id] = new_set_columns[j]}
                 IN /\ Cardinality(new) = 1
                    /\ \A id \in new :
                          /\ id \in DOMAIN parsing'
                          /\ parsing'[id].name = record[new_set_columns[j].text + 1]
        /\ \A id \in (DOMAIN parsing) \cap (DOMAIN parsing') :
              parsing'[id].name = parsing[id].name
        /\ \A k \in 1..Len(sets') :
              /\ sets'[k].uuid \in DOMAIN openedAt'
              /\ sets'[k].name =
                    lines'[openedAt'[sets'[k].uuid].rec + 1]
                          [openedAt'[sets'[k].uuid].col.text + 1]
      ]_vars

\* a record with two groups was processed: one group closed an open set, the
\* other matched nothing, both opened a set, and a "Title2" set is open
C11_Witness ==
    /\ pc = "read"
    /\ Len(new_set_columns) = 2
    /\ Cardinality({u \in DOMAIN closedBy : closedBy[u][1] = RecNo}) = 1
    /\ Cardinality({u \in DOMAIN mapping : openedAt[u].rec = RecNo}) = 2
    /\ \E u \in DOMAIN parsing : parsing[u].name = "Title2"
    /\ \E k \in 1..Len(sets) : sets[k].name = "Title"

\* C12: once a set is finalized, processing further records never changes its
\* cards, name or identifier, and no later extraction adds a card to it.
C12_FinalizedImmutable ==
    [][ /\ \/ sets' = sets
           \/ /\ Len(sets') >= Len(sets)
              /\ SubSeq(sets', 1, Len(sets)) = sets
        /\ (pc' \in {"read", "close", "open"}) =>
              \A k \in 1..Len(sets') :
                  /\ sets'[k].uuid \notin DOMAIN mapping'
                  /\ sets'[k].uuid \notin DOMAIN parsing'
      ]_vars

\* a set finalized by an earlier record; the current record has "Prompt" at
\* that set's suite column and its card went to the set open there now
C12_Witness ==
    /\ pc = "close"
    /\ \E k \in 1..Len(sets) :
          /\ sets[k].uuid \in DOMAIN closedBy
          /\ closedBy[sets[k].uuid][1] < RecNo
          /\ record[openedAt[sets[k].uuid].col.suite + 1] = "Prompt"
          /\ \E id \in DOMAIN parsing :
                /\ mapping[id] = openedAt[sets[k].uuid].col
                /\ parsing[id].cards # <<>>

\* C13: every line of the input, the first included, is delivered as a row
\* and goes through extraction, detection and reconciliation; a set header on
\* the first line opens a set.
C13_FirstLineOpensSet ==
    (pc = "read" /\ Len(lines) = 1 /\ lines[1] = HeaderBlock) =>
        \E id \in DOMAIN mapping :
            /\ Triple(mapping[id]) = <<0, 1, 2>>
            /\ id \in DOMAIN parsing
            /\ parsing[id].name = "Title"

\* the cards due to a set with columns col from the records numbered from..to
RECURSIVE ExpectedCards(_, _, _)
ExpectedCards(col, from, to) ==
    IF from > to THEN <<>>
    ELSE LET row  == lines[from + 1]
             cell == row[col.suite + 1]
             rest == ExpectedCards(col, from + 1, to)
         IN IF cell \in {"Prompt", "Response"}
            THEN <<[rec     |-> from,
                    suite   |-> IF cell = "Prompt" THEN "PROMPT" ELSE "RESPONSE",
                    text    |-> row[col.text + 1],
                    special |-> row[col.special + 1]]>> \o rest
            ELSE rest

CardView(card) == [rec |-> card.uuid[1], suite |-> card.suite,
                   text |-> card.text, special |-> card.special]

\* C14: the cards of a finalized set are exactly, in record order, one card
\* for each record strictly after its opening record and strictly before its
\* closing record (or up to the last record when it was open at the end) whose
\* cell at the set's suite column is "Prompt" or "Response".
C14_CardsBetweenOpenAndClose ==
    \A k \in 1..Len(sets) :
        LET u    == sets[k].uuid
            last == IF u \in DOMAIN closedBy THEN closedBy[u][1] - 1 ELSE RecNo
        IN [i \in 1..Len(sets[k].cards) |-> CardView(sets[k].cards[i])]
             = ExpectedCards(openedAt[u].col, openedAt[u].rec + 1, last)

\* the output holds a set closed by a record and a set open at the end, each
\* with a card
C14_Witness ==
    /\ pc = "done"
    /\ \E k \in 1..Len(sets) : \E m \in 1..Len(sets) :
          /\ sets[k].uuid \in DOMAIN closedBy
          /\ sets[k].cards # <<>>
          /\ sets[m].uuid \notin DOMAIN closedBy
          /\ sets[m].cards # <<>>

\* the output holds a set that collected cards from two records
C14_WitnessTwo ==
    /\ pc = "done"
    /\ \E k \in 1..Len(sets) : Len(sets[k].cards) = 2

----------------------------------------------------------------------------
(* Properties of the extraction (specification SpecC) *)

\* C15: when a column of an open set lies past the end of the record, the
\* missing cell reads as the empty string and extraction goes on: a missing
\* suite cell yields no card, a missing text or special cell yields a card
\* whose text or special is empty.
C15_MissingCellIsEmpty ==
    pc = "extracted" =>
        \A id \in DOMAIN mapping :
            LET col   == mapping[id]
                n     == Len(record)
                cards == parsing[id].cards
            IN /\ col.suite >= n => cards = <<>>
               /\ (col.suite < n /\ record[col.suite + 1] \in {"Prompt", "Response"}) =>
                     /\ Len(cards) = 1
                     /\ cards[1].text = IF col.text >= n THEN ""
                                        ELSE record[col.text + 1]
                     /\ cards[1].special = IF col.special >= n THEN ""
                                           ELSE record[col.special + 1]

\* a card was built from a record that lacks the set's text and special
\* columns and whose last cell is not empty
C15_Witness ==
    /\ pc = "extracted"
    /\ Len(record) >= 1
    /\ \E id \in DOMAIN mapping :
          /\ mapping[id].text >= Len(record)
          /\ mapping[id].special >= Len(record)
          /\ record[Len(record)] # ""
          /\ Len(parsing[id].cards) = 1
          /\ parsing[id].cards[1].text = ""
          /\ parsing[id].cards[1].special = ""

\* the suite column of the set lies past the end of a record that ends with
\* "Prompt", and no card was built
C15_WitnessNoSuite ==
    /\ pc = "extracted"
    /\ Len(record) >= 1
    /\ record[Len(record)] = "Prompt"
    /\ \E id \in DOMAIN mapping :
          /\ mapping[id].suite >= Len(record)
          /\ parsing[id].cards = <<>>

----------------------------------------------------------------------------
(* Further properties of the detector (specification SpecD) *)

\* C16: every group emitted by the detector has suite_col < text_col <
\* special_col.
C16_Ordered ==
    pc = "scanned" =>
        \A k \in 1..Len(new_set_columns) :
            /\ new_set_columns[k].suite < new_set_columns[k].text
            /\ new_set_columns[k].text < new_set_columns[k].special

\* C16 as amended: every group emitted has suite_col < special_col and
\* text_col < special_col; suite_col < text_col holds when no "Set" cell lies
\* strictly between text_col and special_col, and otherwise suite_col is the
\* last such "Set" cell, after text_col.
C16_OrderedAmended ==
    pc = "scanned" =>
        \A k \in 1..Len(new_set_columns) :
            LET g    == new_set_columns[k]
                sets_between == {j \in (g.text + 1)..(g.special - 1) :
                                    record[j + 1] = "Set"}
            IN /\ g.suite < g.special
               /\ g.text < g.special
               /\ g.suite # g.text
               /\ sets_between = {} => g.suite < g.text
               /\ sets_between # {} =>
                     /\ g.suite \in sets_between
                     /\ \A j \in sets_between : j <= g.suite

\* a group whose suite column lies after its text column was emitted
C16_Witness ==
    /\ pc = "scanned"
    /\ \E k \in 1..Len(new_set_columns) :
          /\ new_set_columns[k].text < new_set_columns[k].suite
          /\ new_set_columns[k].suite < new_set_columns[k].special

\* C17: the cursors are reset only when a group is emitted; once "Special"
\* has been seen while text_pos is unset, no later cell sets text_pos and no
\* group is emitted for the rest of the record, e.g.
\* ["Special","Set","Title","Special"] yields no group.
C17_StaleSpecialBlocks ==
    /\ [] ( (pc = "scanned" /\ record = <<"Special", "Set", "Title", "Special">>)
               => new_set_columns = <<>> )
    /\ [][ (pc = "scan" /\ pc' = "scan") =>
             /\ (is_some(scan.special_index) /\ ~is_some(scan.text_index)) =>
                   /\ scan'.result = scan.result
                   /\ ~is_some(scan'.text_index)
                   /\ is_some(scan'.special_index)
             /\ ( \/ (is_some(scan.suite_index) /\ ~is_some(scan'.suite_index))
                  \/ (is_some(scan.text_index) /\ ~is_some(scan'.text_index))
                  \/ (is_some(scan.special_index) /\ ~is_some(scan'.special_index)) )
                   => Len(scan'.result) = Len(scan.result) + 1
         ]_vars

\* the record of the example was scanned to its end with "Special" seen first
C17_Witness ==
    /\ pc = "scanned"
    /\ record = <<"Special", "Set", "Title", "Special">>
    /\ is_some(scan.special_index)
    /\ is_some(scan.suite_index)
    /\ ~is_some(scan.text_index)
    /\ new_set_columns = <<>>

----------------------------------------------------------------------------
(* Properties of the whole run (specification Spec) *)

\* number of groups the detector finds in the records read so far
RECURSIVE GroupsDetected(_)
GroupsDetected(n) ==
    IF n <= 1 THEN 0
    ELSE Len(parse_set_columns(lines[n])) + GroupsDetected(n - 1)

\* C18: every set ever opened appears exactly once in the returned output, so
\* the number of returned sets is the number of groups detected over all the
\* processed records.
C18_EveryOpenedSetReturnedOnce ==
    pc = "done" =>
        /\ ret.kind = "Ok"
        /\ Uuids(ret.sets) = DOMAIN openedAt
        /\ Cardinality(Uuids(ret.sets)) = Len(ret.sets)
        /\ Len(ret.sets) = GroupsDetected(Len(lines))

\* five groups were detected over three records, three of them closed a set
C18_Witness ==
    /\ pc = "done"
    /\ Len(ret.sets) = 5
    /\ closeEvents = 3

\* the first cards of a set, at most PreviewLen of them
Preview(set) ==
    [i \in 1..(IF Len(set.cards) < PreviewLen THEN Len(set.cards) ELSE PreviewLen)
        |-> <<"card", set.cards[i].text>>]

RECURSIVE ExpectedReport(_)
ExpectedReport(todo) ==
    IF todo = <<>> THEN <<>>
    ELSE << <<"name", Head(todo).name>> >> \o Preview(Head(todo))
            \o ExpectedReport(Tail(todo))

\* C19: for a file that parses, the upload handler completes whatever the
\* number of cards of each set: it reports the name and the first cards (at
\* most 10) of every set, also of sets with fewer than 10 cards.
C19_UploadCompletes ==
    (pc \in {"reported", "panicked"}) =>
        /\ pc = "reported"
        /\ printed = << <<"found", Len(ret.sets)>> >> \o ExpectedReport(ret.sets)

\* C20: an identifier is in `parsing` if and only if it is in `mapping`, so
\* the cards extracted for a mapped identifier always find their set.
C20_SameKeys ==
    /\ DOMAIN parsing = DOMAIN mapping
    /\ \A id \in DOMAIN mapping : parsing[id].uuid = id

\* at a record boundary, after a close event, two sets are open and one of
\* them has received a card
C20_Witness ==
    /\ pc = "read"
    /\ closeEvents >= 1
    /\ Cardinality(DOMAIN mapping) = 2
    /\ \E id \in DOMAIN mapping : id \in DOMAIN parsing /\ parsing[id].cards # <<>>

====
